---- MODULE Spec2Model ----
(***************************************************************************)
(* Learning-rate range test and learning-rate schedules of                 *)
(* 12-week12/1-deep-learning-learning-schedules.ipynb.                     *)
(*                                                                         *)
(* Learning rates and losses are real numbers in the notebook.  They are   *)
(* modelled as exact rationals <<numerator, denominator>> in lowest terms  *)
(* with a positive denominator; floating-point rounding is not modelled.   *)
(***************************************************************************)
EXTENDS Integers, Sequences, FiniteSets, TLC

(***************************************************************************)
(* Bounds of the model.                                                    *)
(***************************************************************************)
MaxLen == 3
MaxBatchSize == 2
MaxEpochs == 2
MaxIterations == 8
MaxStep == 5
MaxDecay == 2

(***************************************************************************)
(* Exact rational arithmetic.                                              *)
(***************************************************************************)
Abs(x) == IF x < 0 THEN -x ELSE x

RECURSIVE GCD(_, _)
GCD(a, b) == IF b = 0 THEN a ELSE GCD(b, a % b)

Rat(n, d) ==
    LET s == IF d < 0 THEN -1 ELSE 1
        g == GCD(Abs(n), Abs(d))
    IN  <<(s * n) \div g, (s * d) \div g>>

RInt(n) == <<n, 1>>
\* Denominators are brought to their least common multiple, and products are
\* cancelled crosswise, to keep the intermediate integers small.
RAdd(a, b) ==
    LET g == GCD(a[2], b[2])
    IN  Rat(a[1] * (b[2] \div g) + b[1] * (a[2] \div g), a[2] * (b[2] \div g))
RSub(a, b) == RAdd(a, <<-b[1], b[2]>>)
RMul(a, b) ==
    LET g1 == GCD(Abs(a[1]), b[2])
        g2 == GCD(Abs(b[1]), a[2])
    IN  IF a[1] = 0 \/ b[1] = 0 THEN <<0, 1>>
        ELSE Rat((a[1] \div g1) * (b[1] \div g2), (a[2] \div g2) * (b[2] \div g1))
RDiv(a, b) == RMul(a, <<b[2], b[1]>>)
RLess(a, b) == RSub(a, b)[1] < 0
RLeq(a, b) == RSub(a, b)[1] <= 0

RECURSIVE RPow(_, _)
RPow(a, n) == IF n = 0 THEN RInt(1) ELSE RMul(a, RPow(a, n - 1))

RECURSIVE IPow(_, _)
IPow(x, n) == IF n = 0 THEN 1 ELSE x * IPow(x, n - 1)

\* The largest r >= from with r^n <= x: the integer n-th root of x.
RECURSIVE IRootFrom(_, _, _)
IRootFrom(x, n, from) ==
    IF IPow(from + 1, n) > x THEN from ELSE IRootFrom(x, n, from + 1)

\* a ** (1 / n) for n >= 1; exact whenever a is the n-th power of a rational.
RRoot(a, n) == <<IRootFrom(a[1], n, 0), IRootFrom(a[2], n, 0)>>

\* math.ceil of a rational.
Ceil(a) == -((-a[1]) \div a[2])

\* Python's "x or default", for an argument that may be None or zero.
None == <<0, 0>>
Or(x, default) == IF x = None \/ x[1] = 0 THEN default ELSE x

(***************************************************************************)
(* State.                                                                  *)
(***************************************************************************)
VARIABLES
    pc,                  \* position in find_learning_rate / fit
    weights,             \* model.get_weights()
    lr,                  \* model.optimizer.learning_rate
    X_len, batch_size, epochs, min_rate, max_rate,  \* arguments
    init_weights, iterations, factor, init_lr,      \* locals
    rates, losses, sum_of_epoch_losses,             \* exp_lr fields
    epoch, batch, epoch_total,                      \* fit's loop and loss metric
    batch_losses,        \* history: the loss of every batch trained so far
    trained_weights,     \* history: the weights left by the last batch
    call_weights, call_lr, \* history: weights and rate at the call
    \* OneCycleScheduler fields
    oc_iterations, max_lr, start_lr, last_iterations, half_iteration, last_lr,
    iteration,
    oc_lr,               \* the rate OneCycleScheduler assigned last
    assigned,            \* history: the rate assigned by every call
    phases,              \* history: the branch taken by every call
    \* PowerScheduling fields
    initial_learning_rate, decay_rate, step_param,
    step,                \* the optimizer's iteration counter
    power_rates          \* history: the rate returned for steps 0, 1, ...

findVars == <<pc, weights, lr, X_len, batch_size, epochs, min_rate, max_rate,
              init_weights, iterations, factor, init_lr, rates, losses,
              sum_of_epoch_losses, epoch, batch, epoch_total, batch_losses,
              trained_weights, call_weights, call_lr>>

oneCycleVars == <<oc_iterations, max_lr, start_lr, last_iterations,
                  half_iteration, last_lr, iteration, oc_lr, assigned, phases>>

powerVars == <<initial_learning_rate, decay_rate, step_param, step, power_rates>>

vars == <<findVars, oneCycleVars, powerVars>>

LossValues == {Rat(1, 2), RInt(2)}
Weights == {"w0", "w1"}
MinRates == {Rat(1, 100), Rat(1, 10)}
Growths == {RInt(2), Rat(3, 2)}
InitialRates == {Rat(1, 1000)}

(***************************************************************************)
(* find_learning_rate and the ExponentialLearningRate callback.            *)
(***************************************************************************)
\* Variant: the number of epochs is left out of the count.
IterationsOneEpoch(len, bs, eps) == Ceil(Rat(len, bs))

Iterations(len, bs, eps) == Ceil(Rat(len, bs)) * eps

Factor(maxr, minr, its) == RRoot(RDiv(maxr, minr), its)

\* model.fit runs ceil(len(X) / batch_size) batches in each epoch.
StepsPerEpoch == (X_len + batch_size - 1) \div batch_size

InitFind ==
    /\ pc = "call"
    /\ weights = "w0"
    /\ lr \in InitialRates
    /\ X_len \in 1..MaxLen
    /\ batch_size \in 1..MaxBatchSize
    /\ epochs \in 1..MaxEpochs
    /\ min_rate \in MinRates
    /\ \E g \in Growths :
         max_rate = RMul(min_rate, RPow(g, StepsPerEpoch * epochs))
    /\ init_weights = "none"
    /\ iterations = 0
    /\ factor = None
    /\ init_lr = None
    /\ rates = <<>>
    /\ losses = <<>>
    /\ sum_of_epoch_losses = None
    /\ epoch = 0
    /\ batch = 0
    /\ epoch_total = RInt(0)
    /\ batch_losses = <<>>
    /\ trained_weights = "none"
    /\ call_weights = weights
    /\ call_lr = lr

\* find_learning_rate up to the call of model.fit.
FindLearningRate ==
    /\ pc = "call"
    /\ init_weights' = weights
    /\ iterations' = Iterations(X_len, batch_size, epochs)
    /\ factor' = Factor(max_rate, min_rate, iterations')
    /\ init_lr' = lr
    /\ lr' = min_rate
    /\ rates' = <<>>
    /\ losses' = <<>>
    /\ epoch' = 0
    /\ pc' = "epoch_begin"
    /\ UNCHANGED <<weights, X_len, batch_size, epochs, min_rate, max_rate,
                   sum_of_epoch_losses, batch, epoch_total, batch_losses,
                   trained_weights, call_weights, call_lr, oneCycleVars,
                   powerVars>>

\* Variant: the sum is cleared for the first epoch only.
EpochBeginSumOnce(e, s) == IF e = 0 THEN RInt(0) ELSE s

EpochBeginSum(e, s) == RInt(0)

\* fit starts an epoch: the loss metric is reset and on_epoch_begin is called.
on_epoch_begin ==
    /\ pc = "epoch_begin"
    /\ sum_of_epoch_losses' = EpochBeginSum(epoch, sum_of_epoch_losses)
    /\ epoch_total' = RInt(0)
    /\ batch' = 0
    /\ pc' = "batch"
    /\ UNCHANGED <<weights, lr, X_len, batch_size, epochs, min_rate, max_rate,
                   init_weights, iterations, factor, init_lr, rates, losses,
                   epoch, batch_losses, trained_weights, call_weights, call_lr,
                   oneCycleVars, powerVars>>

NewSum(mean_epoch_loss, b) == RMul(mean_epoch_loss, RInt(b + 1))

\* Variant: the factor is added instead of multiplied.
NewLrAdd(rate, f) == RAdd(rate, f)

NewLr(rate, f) == RMul(rate, f)

on_batch_end(b, mean_epoch_loss) ==
    LET new_sum_of_epoch_losses == NewSum(mean_epoch_loss, b)
        batch_loss == RSub(new_sum_of_epoch_losses, sum_of_epoch_losses)
    IN  /\ sum_of_epoch_losses' = new_sum_of_epoch_losses
        /\ rates' = Append(rates, lr)
        /\ losses' = Append(losses, batch_loss)
        /\ lr' = NewLr(lr, factor)

\* fit trains one batch at the current rate, updates the running mean of the
\* epoch's losses and calls on_batch_end with it.
TrainBatch ==
    /\ pc = "batch"
    /\ \E loss \in LossValues, w \in Weights :
         /\ weights' = w
         /\ trained_weights' = w
         /\ batch_losses' = Append(batch_losses, loss)
         /\ epoch_total' = RAdd(epoch_total, loss)
         /\ on_batch_end(batch, RDiv(epoch_total', RInt(batch + 1)))
    /\ IF batch + 1 < StepsPerEpoch
         THEN /\ batch' = batch + 1
              /\ UNCHANGED <<epoch, pc>>
         ELSE /\ batch' = 0
              /\ epoch' = epoch + 1
              /\ pc' = IF epoch + 1 < epochs THEN "epoch_begin" ELSE "fit_done"
    /\ UNCHANGED <<X_len, batch_size, epochs, min_rate, max_rate, init_weights,
                   iterations, factor, init_lr, call_weights, call_lr,
                   oneCycleVars, powerVars>>

\* Variant: the rate is restored, the weights are not.
FindLearningRateReturnKeepsWeights ==
    /\ pc = "fit_done"
    /\ lr' = init_lr
    /\ pc' = "returned"
    /\ UNCHANGED <<weights, X_len, batch_size, epochs, min_rate, max_rate,
                   init_weights, iterations, factor, init_lr, rates, losses,
                   sum_of_epoch_losses, epoch, batch, epoch_total, batch_losses,
                   trained_weights, call_weights, call_lr, oneCycleVars,
                   powerVars>>

\* find_learning_rate after model.fit has returned.
FindLearningRateReturn ==
    /\ pc = "fit_done"
    /\ lr' = init_lr
    /\ weights' = init_weights
    /\ pc' = "returned"
    /\ UNCHANGED <<X_len, batch_size, epochs, min_rate, max_rate, init_weights,
                   iterations, factor, init_lr, rates, losses,
                   sum_of_epoch_losses, epoch, batch, epoch_total, batch_losses,
                   trained_weights, call_weights, call_lr, oneCycleVars,
                   powerVars>>

(***************************************************************************)
(* Properties of find_learning_rate and ExponentialLearningRate (Spec).    *)
(***************************************************************************)

\* C1: when find_learning_rate returns, the model's weights and the
\* optimizer's learning rate are those of the call, whatever the sweep did.
C1_ResetsModel ==
    pc = "returned" => weights = call_weights /\ lr = call_lr

\* C1 witness: returned after a sweep that left other weights and swept rates
\* other than the rate of the call.
C1_Witness ==
    /\ pc = "returned"
    /\ trained_weights # call_weights
    /\ Len(rates) >= 2
    /\ \A i \in 1..Len(rates) : rates[i] # call_lr

\* C2: every entry of losses is the loss of the batch it was recorded for,
\* in every epoch.
C2_PerBatchLoss == losses = batch_losses

\* C2 witness: the first batch of the second epoch has been recorded, after a
\* first epoch of two or more batches whose losses differ from it.
C2_Witness ==
    /\ epoch = 1
    /\ pc = "batch"
    /\ batch = 1
    /\ StepsPerEpoch >= 2
    /\ Len(losses) = StepsPerEpoch + 1
    /\ losses[Len(losses)] # losses[1]
    /\ losses[Len(losses)] # losses[Len(losses) - 1]

\* The rate before the first batch times factor^k.
SweptRate(k) == RMul(min_rate, RPow(factor, k))

\* C3: after k calls of on_batch_end the rate is the rate before the first
\* batch times factor^k, and entry k of rates (0-based) is that rate times
\* factor^k, across epochs.
C3_ExponentialRate ==
    pc \in {"epoch_begin", "batch", "fit_done"} =>
        /\ lr = SweptRate(Len(rates))
        /\ \A k \in 0..(Len(rates) - 1) : rates[k + 1] = SweptRate(k)

\* C3 witness: calls of on_batch_end in the second epoch.
C3_Witness ==
    /\ pc = "batch"
    /\ epoch = 1
    /\ batch >= 1
    /\ Len(rates) >= 3
    /\ RLess(rates[1], rates[Len(rates)])

\* C4: the first batch is recorded at min_rate, ceil(len(X)/batch_size) *
\* epochs pairs are recorded, and the rate after the last batch is max_rate.
C4_SweepsRange ==
    /\ Len(rates) = Len(losses)
    /\ Len(rates) >= 1 => rates[1] = min_rate
    /\ pc \in {"fit_done", "returned"} =>
          Len(rates) = Ceil(Rat(X_len, batch_size)) * epochs
    /\ pc = "fit_done" => lr = max_rate
    /\ pc \in {"epoch_begin", "batch"} => RLess(lr, max_rate)

\* C4 witness: a sweep over a data set that is no multiple of the batch size,
\* in two epochs, has ended.
C4_Witness ==
    /\ pc = "fit_done"
    /\ X_len % batch_size # 0
    /\ batch_size > 1
    /\ epochs = 2
    /\ Len(rates) = 4

(***************************************************************************)
(* OneCycleScheduler.                                                      *)
(***************************************************************************)
MaxLrs == {Rat(1, 10), RInt(1)}
StartLrArgs == {None, Rat(1, 100), Rat(1, 2)}
LastLrArgs == {None, Rat(1, 1000), Rat(1, 5)}

StartLr(arg, maxlr) == Or(arg, RDiv(maxlr, RInt(10)))

\* The argument 0 stands for None: Python's "or" treats both alike.
LastIterations(arg, its) == IF arg = 0 THEN its \div 10 + 1 ELSE arg

\* Variant: the final phase is not set aside.
HalfIterationNoLast(its, last_its) == its \div 2

HalfIteration(its, last_its) == (its - last_its) \div 2

LastLr(arg, startlr) == Or(arg, RDiv(startlr, RInt(1000)))

\* The state that OneCycleScheduler.__init__ leaves.
OneCycleScheduler(its, maxlr, start_arg, last_its_arg, last_arg) ==
    /\ oc_iterations = its
    /\ max_lr = maxlr
    /\ start_lr = StartLr(start_arg, maxlr)
    /\ last_iterations = LastIterations(last_its_arg, its)
    /\ half_iteration = HalfIteration(its, last_iterations)
    /\ last_lr = LastLr(last_arg, start_lr)
    /\ iteration = 0

InitOneCycle ==
    /\ \E its \in 1..MaxIterations, maxlr \in MaxLrs, start_arg \in StartLrArgs,
          last_arg \in LastLrArgs :
         \E last_its_arg \in 0..its :
           OneCycleScheduler(its, maxlr, start_arg, last_its_arg, last_arg)
    /\ oc_lr = None
    /\ assigned = <<>>
    /\ phases = <<>>

interpolate(iter1, iter2, lr1, lr2) ==
    RAdd(RDiv(RMul(RSub(lr2, lr1), RInt(iteration - iter1)), RInt(iter2 - iter1)),
         lr1)

\* fit calls on_batch_begin once for every batch of the cycle.
on_batch_begin ==
    /\ iteration < oc_iterations
    /\ \/ /\ iteration < half_iteration
          /\ oc_lr' = interpolate(0, half_iteration, start_lr, max_lr)
          /\ phases' = Append(phases, "up")
       \/ /\ ~(iteration < half_iteration)
          /\ iteration < 2 * half_iteration
          /\ oc_lr' = interpolate(half_iteration, 2 * half_iteration,
                                  max_lr, start_lr)
          /\ phases' = Append(phases, "down")
       \/ /\ ~(iteration < half_iteration)
          /\ ~(iteration < 2 * half_iteration)
          /\ oc_lr' = interpolate(2 * half_iteration, oc_iterations,
                                  start_lr, last_lr)
          /\ phases' = Append(phases, "last")
    /\ iteration' = iteration + 1
    /\ assigned' = Append(assigned, oc_lr')
    /\ UNCHANGED <<oc_iterations, max_lr, start_lr, last_iterations,
                   half_iteration, last_lr, findVars, powerVars>>

(***************************************************************************)
(* Properties of OneCycleScheduler (SpecOneCycle).                         *)
(***************************************************************************)
\* The change of the assigned rate from call i to call i + 1 (0-based).
Increment(i) == RSub(assigned[i + 2], assigned[i + 1])

UpIncrement == RDiv(RSub(max_lr, start_lr), RInt(half_iteration))

LastIncrement ==
    RDiv(RSub(last_lr, start_lr), RInt(oc_iterations - 2 * half_iteration))

CallsIn(phase) == Cardinality({i \in 1..Len(phases) : phases[i] = phase})

\* C5: the rate starts at start_lr, rises by a constant increment over calls
\* [0, half_iteration), falls by the same increment over calls
\* [half_iteration, 2 * half_iteration), then falls by a constant increment
\* over the remaining calls, which number at least last_iterations; the rise
\* and the fall have the same number of calls.
C5_OneCycleShape ==
    /\ Len(assigned) >= 1 => assigned[1] = start_lr
    /\ \A i \in 0..(Len(assigned) - 1) :
          /\ phases[i + 1] = "up" <=> i < half_iteration
          /\ phases[i + 1] = "down" <=>
                half_iteration <= i /\ i < 2 * half_iteration
          /\ phases[i + 1] = "last" <=> 2 * half_iteration <= i
    /\ \A i \in 0..(Len(assigned) - 2) :
          /\ i + 1 < half_iteration => Increment(i) = UpIncrement
          /\ half_iteration <= i /\ i + 1 < 2 * half_iteration =>
                Increment(i) = RSub(RInt(0), UpIncrement)
          /\ 2 * half_iteration <= i => Increment(i) = LastIncrement
    /\ half_iteration > 0 /\ RLess(start_lr, max_lr) =>
          RLess(RInt(0), UpIncrement)
    /\ RLess(last_lr, start_lr) => RLess(LastIncrement, RInt(0))
    /\ Len(assigned) > half_iteration /\ half_iteration > 0 =>
          assigned[half_iteration + 1] = max_lr
    /\ iteration = oc_iterations =>
          /\ CallsIn("up") = CallsIn("down")
          /\ CallsIn("last") = oc_iterations - 2 * half_iteration
          /\ CallsIn("last") >= last_iterations

\* C5 witness: a whole cycle with a rise, a fall and a final phase of two or
\* more calls each, between a low start, a higher maximum and a lower end.
C5_Witness ==
    /\ iteration = oc_iterations
    /\ half_iteration >= 2
    /\ CallsIn("last") >= 2
    /\ last_iterations >= 2
    /\ RLess(start_lr, max_lr)
    /\ RLess(last_lr, start_lr)
    /\ RLess(assigned[1], assigned[2])
    /\ RLess(assigned[Len(assigned)], assigned[Len(assigned) - 1])

(***************************************************************************)
(* PowerScheduling.                                                        *)
(***************************************************************************)
InitialLearningRates == {Rat(1, 10), Rat(1, 100), RInt(1)}
StepParams == {Rat(1, 2), RInt(1), RInt(2), RInt(3)}

InitPower ==
    /\ initial_learning_rate \in InitialLearningRates
    /\ decay_rate \in 0..MaxDecay
    /\ step_param \in StepParams
    /\ step = 0
    /\ power_rates = <<>>

\* Variant: the power binds to t/s alone.
PowerCallPrecedence(t) ==
    RDiv(initial_learning_rate,
         RAdd(RInt(1), RPow(RDiv(RInt(t), step_param), decay_rate)))

\* PowerScheduling.__call__(step)
PowerCall(t) ==
    RDiv(initial_learning_rate,
         RPow(RAdd(RInt(1), RDiv(RInt(t), step_param)), decay_rate))

\* The optimizer asks the schedule for the rate of its current iteration.
PowerStep ==
    /\ step < MaxStep
    /\ power_rates' = Append(power_rates, PowerCall(step))
    /\ step' = step + 1
    /\ UNCHANGED <<initial_learning_rate, decay_rate, step_param, findVars,
                   oneCycleVars>>

(***************************************************************************)
(* Properties of PowerScheduling (SpecPower).                              *)
(***************************************************************************)
\* C6: the rate r returned for step t satisfies r * (s + t)^c = eta0 * s^c;
\* it is eta0 at step 0, never above the rate of the step before, and eta0/2
\* at t = s when c = 1.
C6_PowerFormula ==
    \A t \in 0..(Len(power_rates) - 1) :
        LET r == power_rates[t + 1]
        IN  /\ RMul(r, RPow(RAdd(step_param, RInt(t)), decay_rate))
                 = RMul(initial_learning_rate, RPow(step_param, decay_rate))
            /\ t = 0 => r = initial_learning_rate
            /\ t >= 1 => RLeq(r, power_rates[t])
            /\ decay_rate = 1 /\ RInt(t) = step_param =>
                  r = RDiv(initial_learning_rate, RInt(2))

\* C6 witness: a linear decay has been evaluated past step t = s, and a
\* rate below the initial one has been returned.
C6_Witness ==
    /\ decay_rate = 1
    /\ step_param = RInt(2)
    /\ Len(power_rates) >= 4
    /\ RLess(power_rates[4], power_rates[1])

(***************************************************************************)
(* Specifications: one for each part of the notebook; the parts that a     *)
(* specification does not run stay as constructed.                         *)
(***************************************************************************)
IdleFind ==
    /\ pc = "idle"
    /\ weights = "w0"
    /\ lr = None
    /\ X_len = 1
    /\ batch_size = 1
    /\ epochs = 1
    /\ min_rate = None
    /\ max_rate = None
    /\ init_weights = "none"
    /\ iterations = 0
    /\ factor = None
    /\ init_lr = None
    /\ rates = <<>>
    /\ losses = <<>>
    /\ sum_of_epoch_losses = None
    /\ epoch = 0
    /\ batch = 0
    /\ epoch_total = RInt(0)
    /\ batch_losses = <<>>
    /\ trained_weights = "none"
    /\ call_weights = "w0"
    /\ call_lr = None

IdleOneCycle ==
    /\ OneCycleScheduler(1, RInt(1), None, 0, None)
    /\ oc_lr = None
    /\ assigned = <<>>
    /\ phases = <<>>

IdlePower ==
    /\ initial_learning_rate = RInt(1)
    /\ decay_rate = 1
    /\ step_param = RInt(1)
    /\ step = 0
    /\ power_rates = <<>>

Init == InitFind /\ IdleOneCycle /\ IdlePower

Next ==
    \/ FindLearningRate
    \/ on_epoch_begin
    \/ TrainBatch
    \/ FindLearningRateReturn

Spec == Init /\ [][Next]_vars

InitOneCycleSpec == IdleFind /\ InitOneCycle /\ IdlePower

SpecOneCycle == InitOneCycleSpec /\ [][on_batch_begin]_vars

InitPowerSpec == IdleFind /\ IdleOneCycle /\ InitPower

SpecPower == InitPowerSpec /\ [][PowerStep]_vars

====
